---------------------------- MODULE Spec2Model ----------------------------
(***************************************************************************)
(* Model of the `different` repository: the line-diff library and CLI      *)
(* (src/src/lib.rs, src/src/main.rs) and the check evaluator               *)
(* (src/src/runner.rs).                                                    *)
(*                                                                         *)
(* Text is a sequence of one-character strings, so that line splitting,    *)
(* decimal formatting, padding and substring search are computed and not   *)
(* assumed.  Option<T> is a sequence of length 0 (None) or 1 (Some).       *)
(***************************************************************************)
EXTENDS Integers, Sequences, FiniteSets, TLC

VARIABLES
    entry,           \* which program the process is: "different" or "runner"
    settings,        \* the DiffSettings value being built / borrowed
    left, right,     \* the two texts last handed to line_diff
    cur,             \* Option<Diff>: the value line_diff returned
    out,             \* what the last Display::fmt produced
    color_override,  \* colored::control override: None, Some(TRUE), Some(FALSE)
    check,           \* the CheckType last handed to run_check
    world,           \* what the filesystem / template env / process gave it
    result           \* what run_check returned, printed and evaluated

vars == <<entry, settings, left, right, cur, out, color_override,
          check, world, result>>

libVars == <<settings, left, right, cur, out, color_override>>
runnerVars == <<check, world, result>>

-----------------------------------------------------------------------------
(* Bounds and input alphabets *)

MaxLen == 3
MaxWideLines == 10
MaxCmdLen == 2

NL == "\n"
Chars == {"a", NL}

None == <<>>
Some(x) == <<x>>
IsSome(o) == Len(o) = 1
Unwrap(o) == o[1]

SeqsUpTo(S, n) == UNION {[1..k -> S] : k \in 0..n}

\* every text over Chars of at most MaxLen characters
Texts == SeqsUpTo(Chars, MaxLen)

\* k lines "a", each ended by a newline
Rep(k) == [i \in 1..(2 * k) |-> IF i % 2 = 1 THEN "a" ELSE NL]

\* long inputs: pairs of files of up to MaxWideLines lines
WidePairs == {<<Rep(k), Rep(m)>> : k \in (MaxWideLines - 1)..MaxWideLines,
                                   m \in 0..MaxWideLines}

TextPairs == (Texts \X Texts) \cup WidePairs

Max(a, b) == IF a >= b THEN a ELSE b

Spaces(n) == [i \in 1..n |-> " "]
Repeat(c, n) == [i \in 1..n |-> c]

-----------------------------------------------------------------------------
(* Library functions the code calls *)

\* str::lines: split at "\n"; a final line needs no terminator and a
\* trailing "\n" starts no further line.
RECURSIVE SplitLines(_, _, _)
SplitLines(s, line, acc) ==
    IF s = <<>> THEN (IF line = <<>> THEN acc ELSE Append(acc, line))
    ELSE IF Head(s) = NL THEN SplitLines(Tail(s), <<>>, Append(acc, line))
    ELSE SplitLines(Tail(s), Append(line, Head(s)), acc)

lines(s) == SplitLines(s, <<>>, <<>>)

\* diff::Result<T>.  Both(l, r) carries two equal lines; `line` is l.
Left(l) == [tag |-> "Left", line |-> l]
Both(l, r) == [tag |-> "Both", line |-> l]
Right(r) == [tag |-> "Right", line |-> r]

Reverse(s) == [i \in 1..Len(s) |-> s[Len(s) + 1 - i]]

\* number of leading positions at which L and R agree
RECURSIVE LeadingEquals(_, _, _)
LeadingEquals(L, R, n) ==
    IF n < Len(L) /\ n < Len(R) /\ L[n + 1] = R[n + 1]
    THEN LeadingEquals(L, R, n + 1) ELSE n

\* one row of the LCS table: prev is row i-1, l the i-th left line
RECURSIVE FillRow(_, _, _, _)
FillRow(prev, l, R, acc) ==
    IF Len(acc) = Len(R) + 1 THEN acc
    ELSE LET j == Len(acc)
         IN FillRow(prev, l, R,
                Append(acc, IF l = R[j] THEN prev[j] + 1
                            ELSE Max(prev[j + 1], acc[j])))

RECURSIVE FillTable(_, _, _)
FillTable(L, R, rows) ==
    IF Len(rows) = Len(L) + 1 THEN rows
    ELSE FillTable(L, R,
            Append(rows, FillRow(rows[Len(rows)], L[Len(rows)], R, <<0>>)))

\* LcsTable(L, R)[i + 1][j + 1] = length of an LCS of L[1..i] and R[1..j]
LcsTable(L, R) == FillTable(L, R, <<[j \in 1..(Len(R) + 1) |-> 0]>>)

\* walk the table from its last cell, pushing entries back to front
RECURSIVE Backtrack(_, _, _, _, _, _)
Backtrack(T, L, R, i, j, acc) ==
    IF j > 0 /\ (i = 0 \/ T[i + 1][j + 1] = T[i + 1][j])
    THEN Backtrack(T, L, R, i, j - 1, Append(acc, Right(R[j])))
    ELSE IF i > 0 /\ (j = 0 \/ T[i + 1][j + 1] = T[i][j + 1])
    THEN Backtrack(T, L, R, i - 1, j, Append(acc, Left(L[i])))
    ELSE IF i > 0 /\ j > 0
    THEN Backtrack(T, L, R, i - 1, j - 1, Append(acc, Both(L[i], R[j])))
    ELSE acc

\* diff::slice on two line sequences: common prefix and suffix are paired,
\* the middle is aligned along a longest common subsequence.
diff_slice(L, R) ==
    LET lead  == LeadingEquals(L, R, 0)
        trail == LeadingEquals(Reverse(SubSeq(L, lead + 1, Len(L))),
                               Reverse(SubSeq(R, lead + 1, Len(R))), 0)
        ML    == SubSeq(L, lead + 1, Len(L) - trail)
        MR    == SubSeq(R, lead + 1, Len(R) - trail)
        mid   == Reverse(Backtrack(LcsTable(ML, MR), ML, MR, Len(ML), Len(MR), <<>>))
    IN [i \in 1..lead |-> Both(L[i], R[i])]
       \o mid
       \o [i \in 1..trail |-> Both(L[Len(L) - trail + i], R[Len(R) - trail + i])]

\* diff::lines(left, right)
diff_lines(l, r) == diff_slice(lines(l), lines(r))

DigitChars == <<"0", "1", "2", "3", "4", "5", "6", "7", "8", "9">>

\* usize::to_string
RECURSIVE to_string(_)
to_string(n) ==
    IF n < 10 THEN <<DigitChars[n + 1]>>
    ELSE Append(to_string(n \div 10), DigitChars[(n % 10) + 1])

\* usize::ilog10 for n > 0 (it panics on 0: see IlogPanics)
RECURSIVE ilog10(_)
ilog10(n) == IF n < 10 THEN 0 ELSE 1 + ilog10(n \div 10)

IlogPanics(n) == n = 0

\* format!("{s:>width$}"): pad on the left to at least width
PadLeft(s, width) == IF Len(s) >= width THEN s ELSE Spaces(width - Len(s)) \o s

\* str::contains
Contains(s, f) == \E i \in 0..(Len(s) - Len(f)) : SubSeq(s, i + 1, i + Len(f)) = f

-----------------------------------------------------------------------------
(* src/src/lib.rs *)

DEFAULT_LEFT_MARKER == "-"
DEFAULT_RIGHT_MARKER == "+"
DEFAULT_MARKER_COUNT == 4
DEFAULT_INDENT_SPACES == 2
DEFAULT_LEFT_COLOR == "Green"
DEFAULT_RIGHT_COLOR == "Red"

LeftName == <<"L">>
RightName == <<"R">>

\* the arguments max_line_number is called with
LineNumberArgs == {0, 1, 10}

\* impl Default for DiffSettings
DefaultSettings ==
    [left_name       |-> None,
     right_name      |-> None,
     left_marker     |-> DEFAULT_LEFT_MARKER,
     right_marker    |-> DEFAULT_RIGHT_MARKER,
     marker_count    |-> DEFAULT_MARKER_COUNT,
     indent_spaces   |-> DEFAULT_INDENT_SPACES,
     force_color     |-> FALSE,
     left_color      |-> Some(DEFAULT_LEFT_COLOR),
     right_color     |-> Some(DEFAULT_RIGHT_COLOR),
     no_color        |-> FALSE,
     max_line_number |-> None]

\* #[derive(clap::Parser)]: the value parsed from a command line that gives
\* only the two colour switches.  Options not given are None; the markers,
\* the marker count and the indent take their default_value_t.
ParsedSettings(force, nocolor) ==
    [left_name       |-> None,
     right_name      |-> None,
     left_marker     |-> DEFAULT_LEFT_MARKER,
     right_marker    |-> DEFAULT_RIGHT_MARKER,
     marker_count    |-> DEFAULT_MARKER_COUNT,
     indent_spaces   |-> DEFAULT_INDENT_SPACES,
     force_color     |-> force,
     left_color      |-> None,
     right_color     |-> None,
     no_color        |-> nocolor,
     max_line_number |-> None]

\* DiffSettings::names
names(s, l, r) == [s EXCEPT !.left_name = Some(l), !.right_name = Some(r)]

\* DiffSettings::max_line_number
max_line_number(s, n) == [s EXCEPT !.max_line_number = Some(n)]

\* impl Display for Side
SideStr(side) == IF side = "Left" THEN <<"l", "e", "f", "t">>
                 ELSE <<"r", "i", "g", "h", "t">>

\* fn header
header(side, name, marker, marker_len) ==
    LET marker_bar == Repeat(marker, marker_len)
        text == IF IsSome(name)
                THEN LET extra_space == IF side = "Left" THEN <<" ">> ELSE <<>>
                     IN SideStr(side) \o <<":">> \o extra_space \o <<" ">> \o Unwrap(name)
                ELSE SideStr(side)
    IN marker_bar \o <<" ">> \o text

\* display_str as it would be without the width: the digits, never padded
display_str_unpadded(num, max_width) ==
    IF IsSome(num) THEN to_string(Unwrap(num)) ELSE <<" ">>

\* fn display_str(num, max_width)
display_str(num, max_width) ==
    IF IsSome(max_width)
    THEN (IF IsSome(num) THEN PadLeft(to_string(Unwrap(num)), Unwrap(max_width))
          ELSE Spaces(Unwrap(max_width)))
    ELSE (IF IsSome(num) THEN to_string(Unwrap(num)) ELSE <<" ">>)

\* number_line with a Both arm that forgets to advance the right counter
number_line_left_only(line, line_num_a, line_num_b) ==
    IF line.tag = "Left"
    THEN [a |-> line_num_a + 1, b |-> line_num_b, sep |-> "-",
          num_a |-> Some(line_num_a + 1), num_b |-> None, color |-> "Left"]
    ELSE IF line.tag = "Both"
    THEN [a |-> line_num_a + 1, b |-> line_num_b, sep |-> "|",
          num_a |-> Some(line_num_a + 1), num_b |-> Some(line_num_b),
          color |-> "Both"]
    ELSE [a |-> line_num_a, b |-> line_num_b + 1, sep |-> "+",
          num_a |-> None, num_b |-> Some(line_num_b + 1), color |-> "Right"]

\* the match of Diff::fmt's loop body: the counters after the entry, the
\* separator and the numbers shown
number_line(line, line_num_a, line_num_b) ==
    IF line.tag = "Left"
    THEN [a |-> line_num_a + 1, b |-> line_num_b, sep |-> "-",
          num_a |-> Some(line_num_a + 1), num_b |-> None, color |-> "Left"]
    ELSE IF line.tag = "Both"
    THEN [a |-> line_num_a + 1, b |-> line_num_b + 1, sep |-> "|",
          num_a |-> Some(line_num_a + 1), num_b |-> Some(line_num_b + 1),
          color |-> "Both"]
    ELSE [a |-> line_num_a, b |-> line_num_b + 1, sep |-> "+",
          num_a |-> None, num_b |-> Some(line_num_b + 1), color |-> "Right"]

\* the width Diff::fmt derives from settings.max_line_number (Some(n), n > 0)
max_num_width(s) ==
    IF IsSome(s.max_line_number) THEN Some(ilog10(Unwrap(s.max_line_number)) + 1)
    ELSE None

\* one written body line: the pieces of the format! and their concatenation
BodyLine(indent, num_a, num_b, sep, content, color) ==
    [num_a |-> num_a, num_b |-> num_b, sep |-> sep, color |-> color,
     text  |-> indent \o num_a \o indent \o num_b \o <<" ", sep, " ">> \o content]

\* the for loop of Diff::fmt over diff[k..]
RECURSIVE fmt_body(_, _, _, _, _, _)
fmt_body(s, diff, k, line_num_a, line_num_b, acc) ==
    IF k > Len(diff) THEN acc
    ELSE LET n == number_line(diff[k], line_num_a, line_num_b)
             w == max_num_width(s)
             indent == Spaces(s.indent_spaces)
             color == IF n.color = "Left"
                      THEN (IF IsSome(s.left_color) THEN Unwrap(s.left_color)
                            ELSE DEFAULT_LEFT_COLOR)
                      ELSE IF n.color = "Right"
                      THEN (IF IsSome(s.right_color) THEN Unwrap(s.right_color)
                            ELSE DEFAULT_RIGHT_COLOR)
                      ELSE "dimmed"
         IN fmt_body(s, diff, k + 1, n.a, n.b,
                Append(acc, BodyLine(indent, display_str(n.num_a, w),
                                     display_str(n.num_b, w), n.sep,
                                     diff[k].line, color)))

\* the colored::control::set_override calls of one render of a Diff::Diff
set_override_calls(s) ==
    (IF s.force_color THEN <<TRUE>> ELSE <<>>)
    \o (IF s.no_color THEN <<FALSE>> ELSE <<>>)

NoOut == [status |-> "none", header |-> <<>>, body |-> <<>>, calls |-> <<>>]

\* fmt with the color switches applied before the match on self, so that a
\* render of Same sets the override too
fmt_override_first(d, s) ==
    IF d.variant = "Same"
    THEN [status |-> "ok", header |-> <<>>, body |-> <<>>,
          calls |-> set_override_calls(s)]
    ELSE IF IsSome(s.max_line_number) /\ IlogPanics(Unwrap(s.max_line_number))
    THEN [status |-> "panic", header |-> <<>>, body |-> <<>>, calls |-> <<>>]
    ELSE [status |-> "ok",
          header |-> <<header("Left", s.left_name, s.left_marker, s.marker_count),
                       header("Right", s.right_name, s.right_marker, s.marker_count)>>,
          body   |-> fmt_body(s, d.diff, 1, 0, 0, <<>>),
          calls  |-> set_override_calls(s)]

\* impl Display for Diff: fmt.  status "panic" is the abort of ilog10(0).
fmt(d, s) ==
    IF d.variant = "Same"
    THEN [status |-> "ok", header |-> <<>>, body |-> <<>>, calls |-> <<>>]
    ELSE IF IsSome(s.max_line_number) /\ IlogPanics(Unwrap(s.max_line_number))
    THEN [status |-> "panic", header |-> <<>>, body |-> <<>>, calls |-> <<>>]
    ELSE [status |-> "ok",
          header |-> <<header("Left", s.left_name, s.left_marker, s.marker_count),
                       header("Right", s.right_name, s.right_marker, s.marker_count)>>,
          body   |-> fmt_body(s, d.diff, 1, 0, 0, <<>>),
          calls  |-> set_override_calls(s)]

\* colored::control::set_override applied call by call
OverrideAfter(before, calls) ==
    IF calls = <<>> THEN before ELSE Some(calls[Len(calls)])

\* the text a render wrote: each header and body line ended by a newline
Flatten(ls) ==
    LET RECURSIVE Cat(_)
        Cat(k) == IF k = 0 THEN <<>> ELSE Cat(k - 1) \o ls[k] \o <<NL>>
    IN Cat(Len(ls))

Rendered(o) == Flatten(o.header \o [i \in 1..Len(o.body) |-> o.body[i].text])

\* line_diff deciding Same by the length of the alignment
line_diff_by_len(l, r) ==
    LET diff == diff_lines(l, r)
    IN IF Len(diff) = 0 THEN [variant |-> "Same", diff |-> <<>>]
       ELSE [variant |-> "Diff", diff |-> diff]

\* pub fn line_diff
line_diff(l, r) ==
    LET diff == diff_lines(l, r)
        same == \A i \in 1..Len(diff) : diff[i].tag = "Both"
    IN IF same THEN [variant |-> "Same", diff |-> <<>>]
       ELSE [variant |-> "Diff", diff |-> diff]

-----------------------------------------------------------------------------
(* src/src/runner.rs *)

\* CheckStatus, and the two ways run_check ends without one: the Err of its
\* anyhow::Result and a panic.  detail holds the arguments of the format!.
Success == [kind |-> "Success", reason |-> "", detail |-> <<>>]
Fail(reason, detail) == [kind |-> "Fail", reason |-> reason, detail |-> detail]
Err(msg) == [kind |-> "Err", reason |-> msg, detail |-> <<>>]
Panic(msg) == [kind |-> "Panic", reason |-> msg, detail |-> <<>>]

\* what run_check did: its return value, the diff reports it printed and the
\* conditions it evaluated, in order
Outcome(status, printed, evaluated) ==
    [status |-> status, printed |-> printed, evaluated |-> evaluated]

NoCheck == [kind |-> "none"]
NoWorld == [kind |-> "none"]
NoResult == [kind |-> "none"]

Path == <<"o", "u", "t">>
TemplateName == <<"t">>
Frag1 == <<"a">>
Frag2 == <<NL, "a">>

\* File.contains in the order the code iterates it
ContainsLists == {<<>>, <<Frag1>>, <<Frag2>>, <<Frag1, Frag2>>, <<Frag2, Frag1>>}

\* what the template environment gives: no such template, a render error,
\* or the rendered text
TemplateTexts == {<<>>, <<"a">>, <<"a", NL>>}
Templates ==
    {[kind |-> "NotFound", text |-> <<>>], [kind |-> "RenderErr", text |-> <<>>]}
    \cup {[kind |-> "Ok", text |-> t] : t \in TemplateTexts}

\* CheckType::File
FileChecks ==
    {[kind |-> "File", path |-> Path, contains |-> cs, template |-> t, contents |-> e] :
        cs \in ContainsLists,
        t \in {None, Some(TemplateName)},
        e \in {None} \cup {Some(x) : x \in Texts}}

\* the filesystem and template environment a File check can meet; what the
\* check cannot reach takes one fixed value
FileWorlds(c) ==
    {w \in [kind : {"file"}, is_file : BOOLEAN,
            read : {None} \cup {Some(x) : x \in Texts},
            template : IF IsSome(c.template) THEN Templates
                       ELSE {[kind |-> "NotFound", text |-> <<>>]}] :
        ~w.is_file => w.read = None}

\* fn display_str(num) of runner.rs
runner_display_str(num) == IF IsSome(num) THEN to_string(Unwrap(num)) ELSE <<" ">>

\* the match of string_diff's loop body
string_diff_line(line, line_num_a, line_num_b) ==
    IF line.tag = "Left"
    THEN [a |-> line_num_a + 1, b |-> line_num_b, sep |-> "-",
          num_a |-> Some(line_num_a + 1), num_b |-> None]
    ELSE IF line.tag = "Both"
    THEN [a |-> line_num_a + 1, b |-> line_num_b + 1, sep |-> "|",
          num_a |-> Some(line_num_a + 1), num_b |-> Some(line_num_b + 1)]
    ELSE [a |-> line_num_a, b |-> line_num_b + 1, sep |-> "+",
          num_a |-> None, num_b |-> Some(line_num_b + 1)]

\* the for loop of string_diff over diff[k..]
RECURSIVE string_diff_body(_, _, _, _, _)
string_diff_body(diff, k, line_num_a, line_num_b, acc) ==
    IF k > Len(diff) THEN acc
    ELSE LET n == string_diff_line(diff[k], line_num_a, line_num_b)
             indent == <<" ", " ">>
         IN string_diff_body(diff, k + 1, n.a, n.b,
                Append(acc, BodyLine(indent, runner_display_str(n.num_a),
                                     runner_display_str(n.num_b), n.sep,
                                     diff[k].line, "plain")))

\* the value string_diff returns
string_diff_same(diff) == Len(diff) = 0

\* fn string_diff(expected, actual, print): its return value and what it prints
string_diff(expected, actual, print) ==
    LET diff == diff_lines(expected.content, actual.content)
        same == string_diff_same(diff)
    IN [same    |-> same,
        diff    |-> diff,
        printed |-> IF ~same /\ print
                    THEN <<[expected |-> expected.name, actual |-> actual.name,
                            body |-> string_diff_body(diff, 1, 0, 0, <<>>)]>>
                    ELSE <<>>]

DiffInput(name, content) == [name |-> name, content |-> content]

print_diffs == TRUE

\* run_check, File arm, the contains loop from fragment k on
RECURSIVE file_contains(_, _, _, _, _)
file_contains(c, actual_contents, k, printed, evaluated) ==
    IF k > Len(c.contains) THEN Outcome(Success, printed, evaluated)
    ELSE IF ~Contains(actual_contents, c.contains[k])
    THEN Outcome(Fail("did not contain expected fragment", <<c.path, c.contains[k]>>),
                 printed, Append(evaluated, "contains"))
    ELSE file_contains(c, actual_contents, k + 1, printed, Append(evaluated, "contains"))

\* run_check, File arm, the template block and what follows it
file_template(c, w, actual_contents, printed, evaluated) ==
    IF ~IsSome(c.template)
    THEN file_contains(c, actual_contents, 1, printed, evaluated)
    ELSE IF ~w.is_file
    THEN Outcome(Fail("Missing file", <<c.path>>), printed, Append(evaluated, "is_file"))
    ELSE IF ~IsSome(w.read)
    THEN Outcome(Fail("Unable to read file", <<c.path>>), printed,
                 evaluated \o <<"is_file", "read_to_string">>)
    ELSE IF w.template.kind = "NotFound"
    THEN Outcome(Err("template not found"), printed,
                 evaluated \o <<"is_file", "read_to_string", "get_template">>)
    ELSE IF w.template.kind = "RenderErr"
    THEN Outcome(Err("render error"), printed,
                 evaluated \o <<"is_file", "read_to_string", "get_template", "render">>)
    ELSE LET d == string_diff(DiffInput("Template", w.template.text),
                              DiffInput("Actual", Unwrap(w.read)), print_diffs)
             ev == evaluated \o <<"is_file", "read_to_string", "get_template",
                                  "render", "template">>
         IN IF ~d.same
            THEN Outcome(Fail("File contents do not match rendered template", <<>>),
                         printed \o d.printed, ev)
            ELSE file_contains(c, actual_contents, 1, printed \o d.printed, ev)

\* run_check, File arm, the contents block and what follows it
file_contents(c, w, actual_contents, evaluated) ==
    IF ~IsSome(c.contents)
    THEN file_template(c, w, actual_contents, <<>>, evaluated)
    ELSE LET d == string_diff(DiffInput("Expected", Unwrap(c.contents)),
                              DiffInput("Actual", actual_contents), print_diffs)
         IN IF ~d.same
            THEN Outcome(Fail("File contents do not match expected contents", <<>>),
                         d.printed, Append(evaluated, "contents"))
            ELSE file_template(c, w, actual_contents, d.printed,
                               Append(evaluated, "contents"))

\* run_check, File arm
run_check_File(c, w) ==
    IF ~w.is_file
    THEN Outcome(Fail("Missing file", <<c.path>>), <<>>, <<"is_file">>)
    ELSE IF ~IsSome(w.read)
    THEN Outcome(Fail("Unable to read file", <<c.path>>), <<>>,
                 <<"is_file", "read_to_string">>)
    ELSE file_contents(c, w, Unwrap(w.read), <<"is_file", "read_to_string">>)

CmdChars == {"x", " ", "'"}
Cmds == SeqsUpTo(CmdChars, MaxCmdLen)

\* shlex::split: words are separated by blanks, a quoted stretch belongs to
\* its word, and an unclosed quote gives None
RECURSIVE ShlexScan(_, _, _, _, _)
ShlexScan(s, word, inword, inquote, acc) ==
    IF s = <<>>
    THEN (IF inquote THEN None ELSE Some(IF inword THEN Append(acc, word) ELSE acc))
    ELSE LET ch == Head(s)
         IN IF inquote
            THEN (IF ch = "'" THEN ShlexScan(Tail(s), word, TRUE, FALSE, acc)
                  ELSE ShlexScan(Tail(s), Append(word, ch), TRUE, TRUE, acc))
            ELSE IF ch = "'" THEN ShlexScan(Tail(s), word, TRUE, TRUE, acc)
            ELSE IF ch = " "
            THEN ShlexScan(Tail(s), <<>>, FALSE, FALSE,
                           IF inword THEN Append(acc, word) ELSE acc)
            ELSE ShlexScan(Tail(s), Append(word, ch), TRUE, FALSE, acc)

shlex_split(cmd) == ShlexScan(cmd, <<>>, FALSE, FALSE, <<>>)

BadByte == "0xFF"
ReplacementChar == "U+FFFD"

\* String::from_utf8_lossy: a byte that is no UTF-8 becomes U+FFFD
from_utf8_lossy(stream) ==
    [i \in 1..Len(stream) |-> IF stream[i] = BadByte THEN ReplacementChar ELSE stream[i]]

StdoutBytes == {<<>>, <<"a", NL>>, <<"a", BadByte>>}
StderrBytes == {<<>>, <<"a", NL>>}
ExpectedStdout == {None, Some(<<>>), Some(<<"a", NL>>), Some(<<"a", ReplacementChar>>)}
ExpectedStderr == {None, Some(<<>>)}
StdoutContains == {<<>>, <<Frag1>>, <<Frag2>>, <<Frag1, Frag2>>}
StderrContains == {<<>>, <<Frag1>>}
Codes == {0, 1}

\* CheckType::Command
CommandChecks ==
    [kind : {"Command"}, cmd : Cmds, code : Codes,
     expected_stdout : ExpectedStdout, expected_stderr : ExpectedStderr,
     stdout_contains : StdoutContains, stderr_contains : StderrContains]

NoOutput == [code |-> None, stdout |-> <<>>, stderr |-> <<>>]

\* std::process::Output; code is status.code(), None after a signal
Outputs ==
    [code : {None} \cup {Some(n) : n \in Codes}, stdout : StdoutBytes,
     stderr : StderrBytes]

\* what Command::output() can give a Command check: no process is started
\* for a command without words, and an empty program name cannot be started
CommandWorlds(c) ==
    LET args == shlex_split(c.cmd)
    IN IF ~IsSome(args) \/ Unwrap(args) = <<>> \/ Unwrap(args)[1] = <<>>
       THEN {[kind |-> "command", spawn_ok |-> FALSE, output |-> NoOutput]}
       ELSE {[kind |-> "command", spawn_ok |-> FALSE, output |-> NoOutput]}
            \cup {[kind |-> "command", spawn_ok |-> TRUE, output |-> o] : o \in Outputs}

\* fn stream_matches
RECURSIVE stream_contains(_, _, _, _)
stream_contains(actual, contains, k, stream_type) ==
    IF k > Len(contains) THEN Success
    ELSE IF ~Contains(actual, contains[k])
    THEN Fail("did not contain expected fragment", <<stream_type, contains[k]>>)
    ELSE stream_contains(actual, contains, k + 1, stream_type)

\* stream_matches looking for the fragments whether or not an exact match
\* is expected
stream_matches_ungated(stream, expected_match, contains, stream_type) ==
    LET actual == from_utf8_lossy(stream)
    IN IF IsSome(expected_match) /\ actual # Unwrap(expected_match)
       THEN Fail("did not match expected output", <<stream_type>>)
       ELSE stream_contains(actual, contains, 1, stream_type)

stream_matches(stream, expected_match, contains, stream_type) ==
    IF IsSome(expected_match)
    THEN LET actual == from_utf8_lossy(stream)
         IN IF actual # Unwrap(expected_match)
            THEN Fail("did not match expected output", <<stream_type>>)
            ELSE stream_contains(actual, contains, 1, stream_type)
    ELSE Success

\* pub fn run_command: Ok(output), Err(message) or the panic of unwrap()
run_command(cmd, w) ==
    LET args == shlex_split(cmd)
    IN IF ~IsSome(args)
       THEN [kind |-> "Panic", msg |-> "called Option::unwrap() on a None value",
             output |-> NoOutput]
       ELSE IF Unwrap(args) = <<>>
       THEN [kind |-> "Err", msg |-> "Unable to parse command", output |-> NoOutput]
       ELSE IF ~w.spawn_ok
       THEN [kind |-> "Err", msg |-> "Unable to run command", output |-> NoOutput]
       ELSE [kind |-> "Ok", msg |-> "", output |-> w.output]

\* the Command arm passing the error of run_command on with `?`
command_result_propagated(c, r) ==
    IF r.kind = "Panic" THEN Panic(r.msg)
    ELSE IF r.kind = "Err" THEN Err(r.msg)
    ELSE IF r.output.code # Some(c.code)
    THEN Fail("Command exited with unexpected code", <<c.cmd>>)
    ELSE LET so == stream_matches(r.output.stdout, c.expected_stdout,
                                  c.stdout_contains, "stdout")
         IN IF so.kind = "Fail" THEN so
            ELSE stream_matches(r.output.stderr, c.expected_stderr,
                                c.stderr_contains, "stderr")

\* run_check, Command arm, what it does with the result of run_command
command_result(c, r) ==
    IF r.kind = "Panic" THEN Panic(r.msg)
    ELSE IF r.kind = "Err"
    THEN Fail("Command did not run successfully", <<r.msg>>)
    ELSE IF r.output.code # Some(c.code)
    THEN Fail("Command exited with unexpected code", <<c.cmd>>)
    ELSE LET so == stream_matches(r.output.stdout, c.expected_stdout,
                                  c.stdout_contains, "stdout")
         IN IF so.kind = "Fail" THEN so
            ELSE stream_matches(r.output.stderr, c.expected_stderr,
                                c.stderr_contains, "stderr")

\* run_check, Command arm
run_check_Command(c, w) ==
    Outcome(command_result(c, run_command(c.cmd, w)), <<>>, <<"run_command">>)

Running(e) == entry = e /\ out.status # "panic"

\* The settings are built while no Diff borrows them (line_diff takes
\* &'a DiffSettings and the builders take self by value).
\* DiffSettings::new()
SettingsNew ==
    /\ Running("different")
    /\ cur = None
    /\ settings' = DefaultSettings
    /\ cur' = None
    /\ out' = NoOut
    /\ UNCHANGED <<entry, left, right, color_override, runnerVars>>

\* Cli::parse() of main, for the settings it flattens
SettingsParse ==
    /\ Running("different")
    /\ cur = None
    /\ \E force \in BOOLEAN, nocolor \in BOOLEAN :
          settings' = ParsedSettings(force, nocolor)
    /\ cur' = None
    /\ out' = NoOut
    /\ UNCHANGED <<entry, left, right, color_override, runnerVars>>

\* settings.names(left_name, right_name)
Names ==
    /\ Running("different")
    /\ cur = None
    /\ settings' = names(settings, LeftName, RightName)
    /\ cur' = None
    /\ out' = NoOut
    /\ UNCHANGED <<entry, left, right, color_override, runnerVars>>

\* settings.max_line_number(n)
MaxLineNumber ==
    /\ Running("different")
    /\ cur = None
    /\ \E n \in LineNumberArgs : settings' = max_line_number(settings, n)
    /\ cur' = None
    /\ out' = NoOut
    /\ UNCHANGED <<entry, left, right, color_override, runnerVars>>

\* let diff = line_diff(&left, &right, &settings)
LineDiff ==
    /\ Running("different")
    /\ cur = None
    /\ \E p \in TextPairs :
          /\ left' = p[1]
          /\ right' = p[2]
          /\ cur' = Some(line_diff(p[1], p[2]))
    /\ out' = NoOut
    /\ UNCHANGED <<entry, settings, color_override, runnerVars>>

\* the Diff and the two texts it borrows go out of scope, which ends its
\* borrow of the settings
DropDiff ==
    /\ Running("different")
    /\ IsSome(cur)
    /\ cur' = None
    /\ left' = <<>>
    /\ right' = <<>>
    /\ out' = NoOut
    /\ UNCHANGED <<entry, settings, color_override, runnerVars>>

\* println!("{diff}") / diff.to_string()
Fmt ==
    /\ Running("different")
    /\ IsSome(cur)
    /\ out' = fmt(Unwrap(cur), settings)
    /\ color_override' = OverrideAfter(color_override, out'.calls)
    /\ UNCHANGED <<entry, settings, left, right, cur, runnerVars>>

\* run_check(&check, base, &variables, &jinja_env) on a File check
RunFileCheck ==
    /\ entry = "runner"
    /\ check = NoCheck
    /\ \E c \in FileChecks : \E w \in FileWorlds(c) :
          /\ check' = c
          /\ world' = w
          /\ result' = run_check_File(c, w)
    /\ UNCHANGED <<entry, libVars>>

\* run_check(&check, base, &variables, &jinja_env) on a Command check
RunCommandCheck ==
    /\ entry = "runner"
    /\ check = NoCheck
    /\ \E c \in CommandChecks : \E w \in CommandWorlds(c) :
          /\ check' = c
          /\ world' = w
          /\ result' = run_check_Command(c, w)
    /\ UNCHANGED <<entry, libVars>>

\* the caller goes on to the next check, unless run_check gave no CheckStatus
NextCheck ==
    /\ entry = "runner"
    /\ check # NoCheck
    /\ result.status.kind \in {"Success", "Fail"}
    /\ check' = NoCheck
    /\ world' = NoWorld
    /\ result' = NoResult
    /\ UNCHANGED <<entry, libVars>>

Init ==
    /\ entry \in {"different", "runner"}
    /\ settings = DefaultSettings
    /\ left = <<>>
    /\ right = <<>>
    /\ cur = None
    /\ out = NoOut
    /\ color_override = None
    /\ check = NoCheck
    /\ world = NoWorld
    /\ result = NoResult

Next ==
    \/ SettingsNew
    \/ SettingsParse
    \/ Names
    \/ MaxLineNumber
    \/ LineDiff
    \/ Fmt
    \/ DropDiff
    \/ RunFileCheck
    \/ RunCommandCheck
    \/ NextCheck

Spec == Init /\ [][Next]_vars

-----------------------------------------------------------------------------
(* Vocabulary of the properties, defined apart from the code's own helpers *)

\* the alignment has a left-only or right-only entry
HasDifference(al) == \E i \in 1..Len(al) : al[i].tag \in {"Left", "Right"}

\* how many of the first i entries of al belong to the given side(s)
CountTags(al, i, tags) == Cardinality({k \in 1..i : al[k].tag \in tags})

Pow10(d) == IF d = 0 THEN 1 ELSE IF d = 1 THEN 10 ELSE IF d = 2 THEN 100
            ELSE IF d = 3 THEN 1000 ELSE 10000

\* the number of decimal digits of n
NumDigits(n) == CHOOSE d \in 1..4 : (d = 1 \/ Pow10(d - 1) <= n) /\ n < Pow10(d)

DigitVal(c) == CHOOSE d \in 0..9 : DigitChars[d + 1] = c

IsDigits(f) == Len(f) > 0 /\ \A i \in 1..Len(f) : \E d \in 0..9 : DigitChars[d + 1] = f[i]

RECURSIVE ParseDec(_)
ParseDec(f) == IF f = <<>> THEN 0
               ELSE 10 * ParseDec(SubSeq(f, 1, Len(f) - 1)) + DigitVal(f[Len(f)])

IsBlank(f) == \A i \in 1..Len(f) : f[i] = " "

\* f without its leading blanks
RECURSIVE Unpadded(_)
Unpadded(f) == IF f # <<>> /\ Head(f) = " " THEN Unpadded(Tail(f)) ELSE f

\* field f shows exactly the number n, right-justified
ShowsNumber(f, n) ==
    /\ IsDigits(Unpadded(f))
    /\ ParseDec(Unpadded(f)) = n
    /\ Len(Unpadded(f)) = NumDigits(n)

\* the number a body line's field must show: the count of its side's lines
\* up to and including entry i, or nothing when entry i has no such line
FieldOk(f, al, i, tags) ==
    IF al[i].tag \in tags THEN ShowsNumber(f, CountTags(al, i, tags))
    ELSE f # <<>> /\ IsBlank(f)

\* every line of a rendered body carries the right two numbers
BodyNumbered(body, al) ==
    /\ Len(body) = Len(al)
    /\ \A i \in 1..Len(body) :
          /\ FieldOk(body[i].num_a, al, i, {"Left", "Both"})
          /\ FieldOk(body[i].num_b, al, i, {"Right", "Both"})

\* a render of a Diff::Diff has written its report
LibRendered == entry = "different" /\ IsSome(cur) /\ out.status = "ok"
               /\ Unwrap(cur).variant = "Diff"

FileChecked == check.kind = "File"
CommandChecked == check.kind = "Command"

\* the alignment a printed report of run_check shows
ReportAlignment(rep) ==
    IF rep.expected = "Expected"
    THEN diff_lines(Unwrap(check.contents), Unwrap(world.read))
    ELSE diff_lines(world.template.text, Unwrap(world.read))

-----------------------------------------------------------------------------
(* C1 *)

C1_Case ==
    /\ FileChecked
    /\ IsSome(check.contents) /\ ~IsSome(check.template) /\ check.contains = <<>>
    /\ world.is_file /\ IsSome(world.read)

\* C1: a File check with only `contents` set, on an existing readable file,
\* returns Success whenever the file's text equals `contents`, and returns
\* Fail "File contents do not match expected contents" only when the line
\* comparison finds a difference between the two texts.
C1_ContentsCompared ==
    C1_Case =>
        /\ Unwrap(world.read) = Unwrap(check.contents)
              => result.status.kind = "Success"
        /\ (/\ result.status.kind = "Fail"
            /\ result.status.reason = "File contents do not match expected contents")
              => HasDifference(diff_lines(Unwrap(check.contents), Unwrap(world.read)))

-----------------------------------------------------------------------------
(* C2 *)

NoTokens(cmd) == shlex_split(cmd) = Some(<<>>)
HasTokens(cmd) == IsSome(shlex_split(cmd)) /\ Unwrap(shlex_split(cmd)) # <<>>

C2_Case ==
    /\ CommandChecked
    /\ \/ NoTokens(check.cmd)
       \/ HasTokens(check.cmd) /\ ~world.spawn_ok

-----------------------------------------------------------------------------
(* C3 *)

\* C3: rendering a diff never fails or aborts, for every alignment and every
\* DiffSettings built through new, names and max_line_number(n), n >= 0.
C3_RenderNeverFails == out.status # "panic"

-----------------------------------------------------------------------------
(* C4 *)

ConfiguredWidth == IF IsSome(settings.max_line_number)
                   THEN NumDigits(Unwrap(settings.max_line_number)) ELSE 1

\* C4 as stated: every line-number field of a rendered body has the fixed
\* width floor(log10(max)) + 1 when a maximum is configured, and is exactly
\* one character wide when none is.
C4_FixedWidth ==
    LibRendered =>
        \A i \in 1..Len(out.body) :
            /\ Len(out.body[i].num_a) = ConfiguredWidth
            /\ Len(out.body[i].num_b) = ConfiguredWidth

\* the width of a field that shows n (Some) or nothing (None)
FieldWidthOk(f, num) ==
    IF IsSome(num)
    THEN /\ Len(f) = Max(ConfiguredWidth, NumDigits(Unwrap(num)))
         /\ ShowsNumber(f, Unwrap(num))
    ELSE f = Spaces(ConfiguredWidth)

ShownNumber(al, i, tags) ==
    IF al[i].tag \in tags THEN Some(CountTags(al, i, tags)) ELSE None

\* C4 as amended: with a maximum max >= 1 configured, a field that shows a
\* number is that number right-justified to max(floor(log10(max)) + 1, its
\* number of digits) characters, so exactly floor(log10(max)) + 1 whenever
\* the number is at most max, and an empty field is floor(log10(max)) + 1
\* blanks; with none configured a field is the decimal digits of the number
\* (one character only below 10) or a single blank.  The fields run_check
\* prints are of the second kind.
C4_FieldWidths ==
    /\ LibRendered =>
          LET al == Unwrap(cur).diff
          IN \A i \in 1..Len(out.body) :
                /\ FieldWidthOk(out.body[i].num_a, ShownNumber(al, i, {"Left", "Both"}))
                /\ FieldWidthOk(out.body[i].num_b, ShownNumber(al, i, {"Right", "Both"}))
                /\ (/\ IsSome(settings.max_line_number)
                    /\ CountTags(al, i, {"Left", "Both"}) <= Unwrap(settings.max_line_number)
                    /\ CountTags(al, i, {"Right", "Both"}) <= Unwrap(settings.max_line_number))
                   => /\ Len(out.body[i].num_a) = ConfiguredWidth
                      /\ Len(out.body[i].num_b) = ConfiguredWidth
    /\ FileChecked =>
          \A r \in 1..Len(result.printed) :
             LET al == ReportAlignment(result.printed[r])
                 body == result.printed[r].body
             IN \A i \in 1..Len(body) :
                   /\ Len(body[i].num_a) =
                         (IF al[i].tag = "Right" THEN 1
                          ELSE NumDigits(CountTags(al, i, {"Left", "Both"})))
                   /\ Len(body[i].num_b) =
                         (IF al[i].tag = "Left" THEN 1
                          ELSE NumDigits(CountTags(al, i, {"Right", "Both"})))

\* a tenth line rendered with no maximum configured: a two-character field
C4_Witness ==
    /\ LibRendered
    /\ ~IsSome(settings.max_line_number)
    /\ \E i \in 1..Len(out.body) : out.body[i].num_a = <<"1", "0">>

-----------------------------------------------------------------------------
(* C5 *)

\* C5: in one render of a non-identical diff at most one of force_color and
\* no_color is applied to the process-wide color mode, also when both are set.
C5_AtMostOneApplied == LibRendered => Len(out.calls) <= 1

-----------------------------------------------------------------------------
(* C6 *)

\* C6: line_diff returns Same if and only if the alignment of the two texts
\* has no left-only and no right-only entry; equal texts give Same; and the
\* rendering of Same is the empty string, without header lines.
C6_SameIffAligned ==
    (entry = "different" /\ IsSome(cur)) =>
        LET al == diff_lines(left, right)
        IN /\ (Unwrap(cur).variant = "Same")
                 <=> (CountTags(al, Len(al), {"Left", "Right"}) = 0)
           /\ Unwrap(cur).variant \in {"Same", "Diff"}
           /\ left = right => Unwrap(cur).variant = "Same"
           /\ (Unwrap(cur).variant = "Same" /\ out.status # "none")
                 => /\ out.status = "ok"
                    /\ out.header = <<>>
                    /\ Rendered(out) = <<>>

\* two equal texts of several lines, compared and rendered
C6_Witness ==
    /\ entry = "different" /\ IsSome(cur)
    /\ left = right /\ Len(lines(left)) >= 2
    /\ Unwrap(cur).variant = "Same"
    /\ out.status = "ok"

-----------------------------------------------------------------------------
(* C7 *)

\* C7: in a rendered body the left number shown at an entry is the count of
\* LeftOnly and Both entries up to and including it, the right number the
\* count of RightOnly and Both entries; so each running number starts at 1,
\* grows by exactly one at the entries of its side and not at the others,
\* and a field is blank exactly when the entry has no line of its side.
\* This holds of Diff::fmt and of the report string_diff prints.
C7_LineNumbering ==
    /\ LibRendered => BodyNumbered(out.body, Unwrap(cur).diff)
    /\ FileChecked =>
          \A r \in 1..Len(result.printed) :
             BodyNumbered(result.printed[r].body, ReportAlignment(result.printed[r]))

\* a rendered report with a left-only, a right-only and a paired entry
C7_Witness ==
    /\ LibRendered
    /\ \E i, j, k \in 1..Len(out.body) :
          /\ out.body[i].sep = "-" /\ out.body[j].sep = "+" /\ out.body[k].sep = "|"
          /\ i < j

C7_RunnerWitness ==
    /\ FileChecked
    /\ \E r \in 1..Len(result.printed) :
          \E i, j \in 1..Len(result.printed[r].body) :
             /\ result.printed[r].body[i].sep = "-"
             /\ result.printed[r].body[j].sep = "+"

-----------------------------------------------------------------------------
(* C8 *)

CommandRan ==
    /\ CommandChecked
    /\ world.spawn_ok
    /\ world.output.code = Some(check.code)

FailedOn(stream_type) ==
    /\ result.status.kind = "Fail"
    /\ result.status.reason \in {"did not contain expected fragment",
                                 "did not match expected output"}
    /\ result.status.detail[1] = stream_type

\* C8: for a Command check whose process ran and exited with the expected
\* code, an unset expected_stdout means no failure on stdout, whatever
\* stdout_contains and the actual stdout are; likewise for stderr; with both
\* unset the check succeeds.
C8_ContainsGated ==
    CommandRan =>
        /\ ~IsSome(check.expected_stdout) => ~FailedOn("stdout")
        /\ ~IsSome(check.expected_stderr) => ~FailedOn("stderr")
        /\ (~IsSome(check.expected_stdout) /\ ~IsSome(check.expected_stderr))
              => result.status.kind = "Success"

\* a fragment that stdout lacks is listed, expected_stdout is unset, and the
\* check succeeds
C8_Witness ==
    /\ CommandRan
    /\ ~IsSome(check.expected_stdout)
    /\ \E k \in 1..Len(check.stdout_contains) :
          ~Contains(from_utf8_lossy(world.output.stdout), check.stdout_contains[k])
    /\ result.status.kind = "Success"

-----------------------------------------------------------------------------
(* C9 *)

\* the conditions of a File check, as statements about the file
ContentsDiffer ==
    /\ IsSome(check.contents)
    /\ HasDifference(diff_lines(Unwrap(check.contents), Unwrap(world.read)))

TemplateDiffers ==
    /\ IsSome(check.template)
    /\ world.template.kind = "Ok"
    /\ HasDifference(diff_lines(world.template.text, Unwrap(world.read)))

MissingFragments ==
    {k \in 1..Len(check.contains) : ~Contains(Unwrap(world.read), check.contains[k])}

\* C9: a File check evaluates (1) path is a regular file, (2) the `contents`
\* comparison, (3) the `template` comparison, (4) each `contains` fragment,
\* in this order; the Fail reason returned is that of the first condition
\* that fails, nothing later is evaluated, and Success is returned only when
\* none fails.
C9_FirstFailureWins ==
    (/\ FileChecked
     /\ world.is_file /\ IsSome(world.read)
     /\ result.status.kind \in {"Success", "Fail"}) =>
        IF ContentsDiffer
        THEN /\ result.status.reason = "File contents do not match expected contents"
             /\ result.evaluated = <<"is_file", "read_to_string", "contents">>
        ELSE IF TemplateDiffers
        THEN result.status.reason = "File contents do not match rendered template"
        ELSE IF MissingFragments # {}
        THEN /\ result.status.reason = "did not contain expected fragment"
             /\ \E k \in MissingFragments : result.status.detail[2] = check.contains[k]
        ELSE result.status.kind = "Success"

\* every step a File check with these fields could evaluate, in code order
FullOrder(c) ==
    <<"is_file", "read_to_string">>
    \o (IF IsSome(c.contents) THEN <<"contents">> ELSE <<>>)
    \o (IF IsSome(c.template)
        THEN <<"is_file", "read_to_string", "get_template", "render", "template">>
        ELSE <<>>)
    \o [k \in 1..Len(c.contains) |-> "contains"]

\* Supporting C9: read by what the code evaluates, the order holds.  The
\* steps evaluated are an initial stretch of the code order, all of it when
\* the check succeeds, and at most one report is printed per comparison made.
C9_OrderAsEvaluated ==
    FileChecked =>
        /\ Len(result.evaluated) <= Len(FullOrder(check))
        /\ result.evaluated = SubSeq(FullOrder(check), 1, Len(result.evaluated))
        /\ result.status.kind = "Success" => result.evaluated = FullOrder(check)
        /\ Len(result.printed) <=
              Cardinality({k \in 1..Len(result.evaluated) :
                              result.evaluated[k] \in {"contents", "template"}})

-----------------------------------------------------------------------------
(* C10 *)

\* a step in which a Diff is rendered
RenderStep == entry = "different" /\ out.status = "none" /\ out'.status # "none"

\* C10: the global color override changes only in a render; a render of
\* Same, and a render whose settings set neither force_color nor no_color,
\* leave it unchanged; any other completed render leaves it at the mode that
\* render set last (off if no_color is set, else on), which is what every
\* later caller observes until another render sets one.
C10_ColorModeLastSet ==
    [][/\ ~RenderStep => color_override' = color_override
       /\ RenderStep =>
             LET d == Unwrap(cur)
                 s == settings
             IN /\ (d.variant = "Same" \/ (~s.force_color /\ ~s.no_color))
                      => color_override' = color_override
                /\ out'.status = "panic" => color_override' = color_override
                /\ (d.variant = "Diff" /\ out'.status = "ok" /\ s.no_color)
                      => color_override' = Some(FALSE)
                /\ (d.variant = "Diff" /\ out'.status = "ok"
                    /\ s.force_color /\ ~s.no_color)
                      => color_override' = Some(TRUE)]_vars

\* an identical diff rendered with no_color set, after an earlier render
\* forced color on: the override is still on
C10_Witness ==
    /\ entry = "different" /\ IsSome(cur)
    /\ Unwrap(cur).variant = "Same"
    /\ out.status = "ok"
    /\ settings.no_color /\ ~settings.force_color
    /\ color_override = Some(TRUE)

=============================================================================
